---- MODULE Spec2Model ----
(***************************************************************************)
(* A model of two parts of xsynth:                                         *)
(*   core/src/soundfont.rs      SquareSoundfont and SampledVoiceSpawner    *)
(*   realtime/examples/midi.rs  the producer thread and the pacing loop    *)
(* f32/f64 quantities are modelled as exact rationals <<num, den>> in      *)
(* lowest terms (pitch factors) or as integer clock ticks (time).          *)
(***************************************************************************)
EXTENDS Integers, Sequences, FiniteSets, TLC

VARIABLES
    \* ---- soundfont.rs
    sf_pc,                  \* position of SquareSoundfont::new: "new", "loading", "unwinding", "built", "failed"
    new_args,               \* the (sample_rate, channels) arguments of new
    loaders,                \* the parallel map's jobs: [next, hi] per job
    slots,                  \* the indexed collect buffer: slot i holds the sample mapped from item i
    samples,                \* SquareSoundfont.samples
    volume_envelope_params, \* SquareSoundfont.volume_envelope_params
    stream_params,          \* SquareSoundfont.stream_params
    ctor,                   \* what the caller of new observed: "none", "ok", "panic"
    ret,                    \* the last trait call on the soundfont and what it returned
    voice,                  \* the voice spawn_voice last built from the spawner in ret
    wav_rate,               \* the sample rate of the decoded files, which load_wav keeps from new
    \* ---- midi.rs
    m_pc,                   \* position of main: "setsf", "spawn", "anchor", "recv", "pace", "sleep", "dispatch", "done"
    p_pc,                   \* position of the producer thread: "idle", "next", "send", "done"
    p_event,                \* the event the producer is sending (e in tx.send(e))
    n_produced,             \* how many events `merged` has yielded
    queue,                  \* the bounded channel (tx, rx)
    cur,                    \* the event the pacing loop is handling (e in the for loop)
    clock,                  \* the monotonic clock behind Instant::now()
    now,                    \* the start anchor `now`
    time,                   \* the accumulator `time`
    diff,                   \* `diff`, the duration asked of spin_sleep::sleep
    sent,                   \* what sender.send_event was called with, in call order
    taken,                  \* history: the events the loop received, in order
    elapsed_read,           \* history: now.elapsed() as read for the current event
    slept,                  \* history: whether the loop slept for the current event
    \* ---- midi.rs, the pitch-wheel arm alone
    pw_event,               \* a pitch-wheel event at the match
    pw_sent                 \* what send_event was called with for it

sf_vars == <<sf_pc, new_args, loaders, slots, samples, volume_envelope_params,
             stream_params, ctor, ret, voice, wav_rate>>

midi_vars == <<m_pc, p_pc, p_event, n_produced, queue, cur, clock, now, time, diff,
               sent, taken, elapsed_read, slept>>

pw_vars == <<pw_event, pw_sent>>

vars == <<sf_vars, midi_vars, pw_vars>>

----------------------------------------------------------------------------
(* Bounds of the model *)

\* number of jobs the parallel iterator is split into
NumLoaders == 2
\* length of the longest event stream
MaxEvents == 3
\* capacity of the channel between the producer and the pacing loop; the
\* program's is 16777216 (crossbeam_channel::bounded(16777216))
QueueCap == 2
\* the clock is let run freely up to this tick; sleeping may take it further
MaxTime == 3
\* the longest a sleep overshoots the duration asked for
MaxOversleep == 1

(* Program constants *)

\* first key of the range (21..109)
KeyLo == 21
\* last key of the range (21..109)
KeyHi == 108
\* the rate the samples are assumed to be recorded at (96000.0)
BaseRate == 96000
\* u8::MAX, the largest key and velocity a caller can pass
U8Max == 255

NumKeys == KeyHi - KeyLo + 1

\* inputs of the model
StreamConfigs == { <<44100, 2>>, <<48000, 2>>, <<96000, 1>> }
Vels == {0, 64, 127, 255}
\* the rates the sample files may have been recorded at
WavRates == {44100, 96000}
\* VoiceControlData.voice_pitch_multiplier, as set by the channel's pitch bend
PitchMultipliers == { <<1, 2>>, <<1, 1>>, <<2, 1>> }
AllKeys == 0..U8Max

----------------------------------------------------------------------------
(* f32 arithmetic as exact rationals in lowest terms *)

RECURSIVE GCD(_, _)
GCD(a, b) == IF b = 0 THEN a ELSE GCD(b, a % b)

Rat(n, d) == LET g == GCD(n, d) IN <<n \div g, d \div g>>
RatMul(x, y) == Rat(x[1] * y[1], x[2] * y[2])
RatOne == <<1, 1>>

----------------------------------------------------------------------------
(* crate::helpers::FREQS: the frequency of every MIDI key, here in 1/100 Hz *)

FREQS_len == 128

FREQS_table ==
   << 818, 866, 918, 972, 1030, 1091, 1156, 1225,
      1298, 1375, 1457, 1543, 1635, 1732, 1835, 1945,
      2060, 2183, 2312, 2450, 2596, 2750, 2914, 3087,
      3270, 3465, 3671, 3889, 4120, 4365, 4625, 4900,
      5191, 5500, 5827, 6174, 6541, 6930, 7342, 7778,
      8241, 8731, 9250, 9800, 10383, 11000, 11654, 12347,
      13081, 13859, 14683, 15556, 16481, 17461, 18500, 19600,
      20765, 22000, 23308, 24694, 26163, 27718, 29366, 31113,
      32963, 34923, 36999, 39200, 41530, 44000, 46616, 49388,
      52325, 55437, 58733, 62225, 65926, 69846, 73999, 78399,
      83061, 88000, 93233, 98777, 104650, 110873, 117466, 124451,
      131851, 139691, 147998, 156798, 166122, 176000, 186466, 197553,
      209300, 221746, 234932, 248902, 263702, 279383, 295996, 313596,
      332244, 352000, 372931, 395107, 418601, 443492, 469864, 497803,
      527404, 558765, 591991, 627193, 664488, 704000, 745862, 790213,
      837202, 886984, 939727, 995606, 1054808, 1117530, 1183982, 1254385 >>

\* FREQS[k], for an index in bounds
FREQS(k) == FREQS_table[k + 1]

----------------------------------------------------------------------------
(* soundfont.rs: values *)

\* what AudioFileLoader::load_wav returns for KEPSREC<i>.wav: one buffer per channel
Sample(i) == << [file |-> i, ch |-> 0], [file |-> i, ch |-> 1] >>

NoSample == << >>

\* 1.04f32.powf(vel as f32 - 127.0), kept symbolic
Amp(vel) == [base |-> <<104, 100>>, exp |-> vel - 127]

\* envelope_descriptor.to_envelope_params(sample_rate)
EnvelopeParams(sample_rate) ==
    [ start_percent |-> <<0, 1>>, delay |-> <<0, 1>>, attack |-> <<0, 1>>,
      hold |-> <<0, 1>>, decay |-> <<1, 10>>, sustain_percent |-> <<7, 10>>,
      release |-> <<1, 5>>, sample_rate |-> sample_rate ]

\* AudioStreamParams::new(sample_rate, channels)
AudioStreamParams(sample_rate, channels) ==
    [ sample_rate |-> sample_rate, channels |-> channels ]

\* a call that panicked returns nothing
Panicked == [ panicked |-> TRUE, spawners |-> << >> ]
Returned(list) == [ panicked |-> FALSE, spawners |-> list ]

\* FREQS[key as usize] / FREQS[21], or the panic of an index out of bounds
BaseFreqBelow(key) ==
    IF key >= FREQS_len \/ KeyLo >= FREQS_len
    THEN << >> ELSE << Rat(FREQS(key), FREQS(KeyLo)) >>

BaseFreqAbove_wrong_edge(key) ==
    IF key >= FREQS_len \/ KeyLo >= FREQS_len
    THEN << >> ELSE << Rat(FREQS(key), FREQS(KeyLo)) >>

\* FREQS[key as usize] / FREQS[108], or the panic of an index out of bounds
BaseFreqAbove(key) ==
    IF key >= FREQS_len \/ KeyHi >= FREQS_len
    THEN << >> ELSE << Rat(FREQS(key), FREQS(KeyHi)) >>

BaseFreqInside_key_scaled(key) ==
    IF key >= FREQS_len \/ KeyLo >= FREQS_len
    THEN << >> ELSE << Rat(FREQS(key), FREQS(KeyLo)) >>

\* let base_freq = 1.0
BaseFreqInside(key) == << RatOne >>

\* sf.samples[i].clone(), or the panic of an index out of bounds
SampleAt(sf_samples, i) ==
    IF i >= Len(sf_samples) THEN << >> ELSE << sf_samples[i + 1] >>

\* sf.samples.last().unwrap().clone(), or the panic of unwrap on None
SampleLast(sf_samples) ==
    IF Len(sf_samples) = 0 THEN << >> ELSE << sf_samples[Len(sf_samples)] >>

\* the struct built at the end of new; an empty option stands for a panic on the way
MakeSpawner(picked, base_freq, vel, sample_rate_fac, envelope) ==
    IF picked = << >> \/ base_freq = << >>
    THEN Panicked
    ELSE Returned(<< [ base_freq |-> RatMul(base_freq[1], sample_rate_fac),
                       amp |-> Amp(vel),
                       volume_envelope_params |-> envelope,
                       samples |-> picked[1],
                       vel |-> vel ] >>)

\* SampledVoiceSpawner::new
SampledVoiceSpawner_new(key, vel, sample_rate_fac, envelope, sf_samples) ==
    IF key < KeyLo THEN
        MakeSpawner(SampleAt(sf_samples, 0), BaseFreqBelow(key), vel, sample_rate_fac, envelope)
    ELSE IF key > KeyHi THEN
        MakeSpawner(SampleLast(sf_samples), BaseFreqAbove(key), vel, sample_rate_fac, envelope)
    ELSE
        MakeSpawner(SampleAt(sf_samples, key - KeyLo), BaseFreqInside(key), vel,
                    sample_rate_fac, envelope)

BaseRateRatio_from_source(params) == Rat(wav_rate, params.sample_rate)

\* the base rate ratio: 96000.0 / sf.stream_params.sample_rate as f32
BaseRateRatio(params) == Rat(BaseRate, params.sample_rate)

\* SquareSoundfont::get_attack_voice_spawners_at
get_attack_voice_spawners_at(key, vel) ==
    SampledVoiceSpawner_new(key, vel, BaseRateRatio(stream_params),
                            volume_envelope_params, samples)

get_release_voice_spawners_at_as_attack(key, vel) == get_attack_voice_spawners_at(key, vel)

\* SquareSoundfont::get_release_voice_spawners_at
get_release_voice_spawners_at(key, vel) == Returned(<< >>)

\* SquareSoundfont::stream_params
stream_params_ref == stream_params

----------------------------------------------------------------------------
(* soundfont.rs: the signal graph spawn_voice builds; a node is a record *)

\* SIMDConstant::new(value)
SIMDConstant(value) == [ node |-> "Constant", value |-> value ]

\* SIMDVoiceControl::new(control, |vc| vc.<field>): reads the field at every step
SIMDVoiceControl(field) == [ node |-> "VoiceControl", field |-> field ]

\* VoiceCombineSIMD::mult(a, b)
VoiceCombineSIMD_mult(a, b) == [ node |-> "Mult", a |-> a, b |-> b ]

\* SIMDNearestSampleGrabber::new(SampleReader::new(BufferSamplers::new_f32(buffer)))
SIMDNearestSampleGrabber(buffer) == [ node |-> "NearestSampleGrabber", buffer |-> buffer ]

\* SIMDStereoVoiceSampler::new(left, right, pitch_fac)
SIMDStereoVoiceSampler(left, right, pitch_fac) ==
    [ node |-> "StereoVoiceSampler", left |-> left, right |-> right, pitch_fac |-> pitch_fac ]

\* SIMDVoiceEnvelope::new(params)
SIMDVoiceEnvelope(params) == [ node |-> "VoiceEnvelope", params |-> params ]

\* no voice was built: spawn_voice was not called, or it panicked
NoVoice == [ built |-> FALSE ]

\* VoiceBase::new(vel, SIMDStereoVoice::new(graph))
VoiceBase(vel, graph) == [ built |-> TRUE, vel |-> vel, flattened |-> graph ]

\* what a scalar node yields at a step when the channel's control data is `control`:
\* a constant its value, a control reader the field, a multiply the product
RECURSIVE EvalScalar(_, _)
EvalScalar(n, control) ==
    IF n.node = "Constant" THEN n.value
    ELSE IF n.node = "VoiceControl" THEN control[n.field]
    ELSE RatMul(EvalScalar(n.a, control), EvalScalar(n.b, control))

PitchFac_no_control(spawner) == SIMDConstant(spawner.base_freq)

\* let pitch_fac = VoiceCombineSIMD::mult(SIMDConstant(base_freq), pitch_multiplier)
PitchFac(spawner) ==
    VoiceCombineSIMD_mult(SIMDConstant(spawner.base_freq),
                          SIMDVoiceControl("voice_pitch_multiplier"))

\* SampledVoiceSpawner::spawn_voice; self.samples[0] and self.samples[1] panic
\* when the sample has fewer than two channels
spawn_voice(spawner) ==
    IF Len(spawner.samples) < 2 THEN NoVoice
    ELSE VoiceBase(spawner.vel,
            VoiceCombineSIMD_mult(
                SIMDVoiceEnvelope(spawner.volume_envelope_params),
                VoiceCombineSIMD_mult(
                    SIMDConstant(spawner.amp),
                    SIMDStereoVoiceSampler(SIMDNearestSampleGrabber(spawner.samples[1]),
                                           SIMDNearestSampleGrabber(spawner.samples[2]),
                                           PitchFac(spawner)))))

----------------------------------------------------------------------------
(* soundfont.rs: SquareSoundfont::new *)

\* the items (21..109) split into NumLoaders contiguous jobs
JobLo(w) == ((w - 1) * NumKeys) \div NumLoaders
JobHi(w) == (w * NumKeys) \div NumLoaders

NoRet == [ op |-> "none", key |-> 0, vel |-> 0, panicked |-> FALSE, spawners |-> << >> ]

SfInit ==
    /\ sf_pc = "new"
    /\ new_args = [ sample_rate |-> 0, channels |-> 0 ]
    /\ loaders = [ w \in 1..NumLoaders |-> [ next |-> JobLo(w), hi |-> JobHi(w) ] ]
    /\ slots = [ i \in 0..(NumKeys - 1) |-> NoSample ]
    /\ samples = << >>
    /\ volume_envelope_params = [ sample_rate |-> 0 ]
    /\ stream_params = [ sample_rate |-> 0, channels |-> 0 ]
    /\ ctor = "none"
    /\ ret = NoRet
    /\ voice = NoVoice
    /\ wav_rate = 0

\* the caller enters SquareSoundfont::new(sample_rate, channels)
New_Start(sample_rate, channels) ==
    /\ sf_pc = "new"
    /\ sf_pc' = "loading"
    /\ new_args' = [ sample_rate |-> sample_rate, channels |-> channels ]
    /\ UNCHANGED <<midi_vars, pw_vars, voice, wav_rate, loaders, slots, samples, volume_envelope_params, stream_params, ctor, ret>>

JobRunning(w) == loaders[w].next < loaders[w].hi

LoadOk_completion_order(w) ==
    /\ sf_pc = "loading"
    /\ JobRunning(w)
    /\ slots' = [ slots EXCEPT ![Cardinality({ i \in DOMAIN slots : slots[i] # NoSample })] =
                                 Sample(KeyLo + loaders[w].next) ]
    /\ loaders' = [ loaders EXCEPT ![w].next = @ + 1 ]
    /\ UNCHANGED <<midi_vars, pw_vars, voice, wav_rate, sf_pc, new_args, samples, volume_envelope_params, stream_params, ctor, ret>>

\* one closure of the parallel map: load_wav returned Ok and unwrap yields the sample
LoadOk(w) ==
    /\ sf_pc = "loading"
    /\ JobRunning(w)
    /\ slots' = [ slots EXCEPT ![loaders[w].next] = Sample(KeyLo + loaders[w].next) ]
    /\ loaders' = [ loaders EXCEPT ![w].next = @ + 1 ]
    /\ UNCHANGED <<midi_vars, pw_vars, voice, wav_rate, sf_pc, new_args, samples, volume_envelope_params, stream_params, ctor, ret>>

\* one closure of the parallel map: load_wav returned Err and unwrap panics;
\* what the other jobs still load is dropped with the collect buffer
LoadFail(w) ==
    /\ sf_pc = "loading"
    /\ JobRunning(w)
    /\ sf_pc' = "unwinding"
    /\ slots' = [ i \in 0..(NumKeys - 1) |-> NoSample ]
    /\ loaders' = [ v \in 1..NumLoaders |-> [ next |-> JobHi(v), hi |-> JobHi(v) ] ]
    /\ UNCHANGED <<midi_vars, pw_vars, voice, wav_rate, new_args, samples, volume_envelope_params, stream_params, ctor, ret>>

AllJobsEnded == \A w \in 1..NumLoaders : ~JobRunning(w)

\* collect: the table in item order, then the rest of new, which returns Self;
\* the files were recorded at any of WavRates
New_Return ==
    /\ sf_pc = "loading"
    /\ AllJobsEnded
    /\ samples' = [ i \in 1..NumKeys |-> slots[i - 1] ]
    /\ volume_envelope_params' = EnvelopeParams(new_args.sample_rate)
    /\ stream_params' = AudioStreamParams(new_args.sample_rate, new_args.channels)
    /\ sf_pc' = "built"
    /\ ctor' = "ok"
    /\ wav_rate' \in WavRates
    /\ UNCHANGED <<midi_vars, pw_vars, voice, new_args, loaders, slots, ret>>

\* what unwinding out of new gives its caller: new returns Self, there is no Err
UnwindOutcome == "panic"

\* a panic of a closure is resumed in the thread that called collect
New_Unwind ==
    /\ sf_pc = "unwinding"
    /\ sf_pc' = "failed"
    /\ ctor' = UnwindOutcome
    /\ UNCHANGED <<midi_vars, pw_vars, voice, wav_rate, new_args, loaders, slots, samples, volume_envelope_params, stream_params, ret>>

GetAttack_takes_sample(key, vel) ==
    /\ sf_pc = "built"
    /\ ret = NoRet
    /\ ret' = [ op |-> "attack", key |-> key, vel |-> vel,
                panicked |-> get_attack_voice_spawners_at(key, vel).panicked,
                spawners |-> get_attack_voice_spawners_at(key, vel).spawners ]
    /\ samples' = IF key >= KeyLo /\ key <= KeyHi
                  THEN [ samples EXCEPT ![key - KeyLo + 1] = NoSample ]
                  ELSE samples
    /\ UNCHANGED <<midi_vars, pw_vars, voice, wav_rate, sf_pc, new_args, loaders, slots,
                   volume_envelope_params, stream_params, ctor>>

\* a channel calls get_attack_voice_spawners_at(key, vel)
GetAttack(key, vel) ==
    /\ sf_pc = "built"
    /\ ret = NoRet
    /\ ret' = [ op |-> "attack", key |-> key, vel |-> vel,
                panicked |-> get_attack_voice_spawners_at(key, vel).panicked,
                spawners |-> get_attack_voice_spawners_at(key, vel).spawners ]
    /\ UNCHANGED <<midi_vars, pw_vars, voice, wav_rate, sf_pc, new_args, loaders, slots, samples, volume_envelope_params,
                   stream_params, ctor>>

\* a channel calls get_release_voice_spawners_at(key, vel)
GetRelease(key, vel) ==
    /\ sf_pc = "built"
    /\ ret = NoRet
    /\ ret' = [ op |-> "release", key |-> key, vel |-> vel,
                panicked |-> get_release_voice_spawners_at(key, vel).panicked,
                spawners |-> get_release_voice_spawners_at(key, vel).spawners ]
    /\ UNCHANGED <<midi_vars, pw_vars, voice, wav_rate, sf_pc, new_args, loaders, slots, samples, volume_envelope_params,
                   stream_params, ctor>>

\* a channel calls stream_params()
StreamParams ==
    /\ sf_pc = "built"
    /\ ret = NoRet
    /\ ret' = [ op |-> "stream_params", key |-> 0, vel |-> 0, panicked |-> FALSE,
                spawners |-> << >>, params |-> stream_params_ref ]
    /\ UNCHANGED <<midi_vars, pw_vars, voice, wav_rate, sf_pc, new_args, loaders, slots, samples,
                   volume_envelope_params, stream_params, ctor>>

\* the channel calls spawn_voice(control) on the spawner it was returned; the
\* voice reads control.voice_pitch_multiplier at every step it renders
SpawnVoice ==
    /\ sf_pc = "built"
    /\ ret.op = "attack"
    /\ ~ret.panicked
    /\ voice = NoVoice
    /\ voice' = spawn_voice(ret.spawners[1])
    /\ UNCHANGED <<midi_vars, pw_vars, wav_rate, sf_pc, new_args, loaders, slots, samples,
                   volume_envelope_params, stream_params, ctor, ret>>

\* the caller is done with the returned list (or has unwound) and drops it
DropRet ==
    /\ ret # NoRet
    /\ ret' = NoRet
    /\ voice' = NoVoice
    /\ UNCHANGED <<midi_vars, pw_vars, wav_rate, sf_pc, new_args, loaders, slots, samples, volume_envelope_params,
                   stream_params, ctor>>

SfNext ==
    \/ \E cfg \in StreamConfigs : New_Start(cfg[1], cfg[2])
    \/ \E w \in 1..NumLoaders : LoadOk(w)
    \/ \E w \in 1..NumLoaders : LoadFail(w)
    \/ New_Return
    \/ New_Unwind
    \/ \E key \in AllKeys, vel \in Vels : GetAttack(key, vel)
    \/ \E key \in AllKeys, vel \in Vels : GetRelease(key, vel)
    \/ StreamParams
    \/ SpawnVoice
    \/ DropRet

----------------------------------------------------------------------------
(* midi.rs: events *)

\* what `merged` can yield: midi_toolkit events with their delta, in seconds;
\* ProgramChange stands for the kinds the loop's match has no arm for
MidiEvents ==
    { [ kind |-> "NoteOn", delta |-> 1, channel |-> 0, key |-> 60, velocity |-> 100 ],
      [ kind |-> "NoteOn", delta |-> 0, channel |-> 1, key |-> 200, velocity |-> 0 ],
      [ kind |-> "NoteOff", delta |-> 0, channel |-> 1, key |-> 60 ],
      [ kind |-> "ControlChange", delta |-> -1, channel |-> 1, controller |-> 64, value |-> 127 ],
      [ kind |-> "PitchWheelChange", delta |-> 2, channel |-> 0, pitch |-> -8192 ],
      [ kind |-> "ProgramChange", delta |-> 1, channel |-> 0, program |-> 5 ] }

NoEvent == [ kind |-> "none", delta |-> 0 ]

\* history: the position an event has in the stream
Stamp(e, n) == [ seq |-> n ] @@ e

\* SynthEvent::AllChannels(ChannelEvent::SetSoundfonts(soundfonts))
SetSoundfontsEvent ==
    [ scope |-> "AllChannels", event |-> [ type |-> "SetSoundfonts" ] ]

\* the values a pitch-wheel event carries in e.pitch (14 bits, centred)
PitchValues == -8192..8191

PitchBendValue_wrong_divisor(pitch) ==
    IF pitch < 0 THEN << -(Rat(-pitch, 8191)[1]), Rat(-pitch, 8191)[2] >>
    ELSE Rat(pitch, 8191)

\* e.pitch as f32 / 8192.0
PitchBendValue(pitch) ==
    IF pitch < 0 THEN << -(Rat(-pitch, 8192)[1]), Rat(-pitch, 8192)[2] >>
    ELSE Rat(pitch, 8192)

Forward_broadcast(e) ==
    IF e.kind = "NoteOn" THEN
        << [ scope |-> "AllChannels", channel |-> e.channel,
             event |-> [ type |-> "NoteOn", key |-> e.key, vel |-> e.velocity ] ] >>
    ELSE IF e.kind = "NoteOff" THEN
        << [ scope |-> "AllChannels", channel |-> e.channel,
             event |-> [ type |-> "NoteOff", key |-> e.key ] ] >>
    ELSE IF e.kind = "ControlChange" THEN
        << [ scope |-> "AllChannels", channel |-> e.channel,
             event |-> [ type |-> "Control", control |-> "Raw",
                         controller |-> e.controller, value |-> e.value ] ] >>
    ELSE IF e.kind = "PitchWheelChange" THEN
        << [ scope |-> "AllChannels", channel |-> e.channel,
             event |-> [ type |-> "Control", control |-> "PitchBendValue",
                         value |-> PitchBendValue(e.pitch) ] ] >>
    ELSE << >>

\* match e { ... }: the send_event calls made for e, none for the other kinds
Forward(e) ==
    IF e.kind = "NoteOn" THEN
        << [ scope |-> "Channel", channel |-> e.channel,
             event |-> [ type |-> "NoteOn", key |-> e.key, vel |-> e.velocity ] ] >>
    ELSE IF e.kind = "NoteOff" THEN
        << [ scope |-> "Channel", channel |-> e.channel,
             event |-> [ type |-> "NoteOff", key |-> e.key ] ] >>
    ELSE IF e.kind = "ControlChange" THEN
        << [ scope |-> "Channel", channel |-> e.channel,
             event |-> [ type |-> "Control", control |-> "Raw",
                         controller |-> e.controller, value |-> e.value ] ] >>
    ELSE IF e.kind = "PitchWheelChange" THEN
        << [ scope |-> "Channel", channel |-> e.channel,
             event |-> [ type |-> "Control", control |-> "PitchBendValue",
                         value |-> PitchBendValue(e.pitch) ] ] >>
    ELSE << >>

\* history kept with each call of send_event: the event it was made for
Logged(calls, seq) == [ i \in 1..Len(calls) |-> [ seq |-> seq, call |-> calls[i] ] ]

----------------------------------------------------------------------------
(* midi.rs: the pacing arithmetic of the loop *)

\* now.elapsed().as_secs_f64()
Elapsed == clock - now

NextTime_only_forwarded(t, e) ==
    IF e.delta # 0 /\ Forward(e) # << >> THEN t + e.delta ELSE t

NextTime_sleep_from_now(t, e) == IF e.delta # 0 THEN Elapsed + e.delta ELSE t

\* if e.delta() != 0.0 { time += e.delta(); ... }
NextTime(t, e) == IF e.delta # 0 THEN t + e.delta ELSE t

Diff_sign_flipped(t, elapsed) == elapsed - t

\* let diff = time - now.elapsed().as_secs_f64();
Diff(t, elapsed) == t - elapsed

ShouldSleep_threshold(e, d) == e.delta # 0 /\ d > 1

\* whether the loop calls spin_sleep::sleep: e.delta() != 0.0 and diff > 0.0
ShouldSleep(e, d) == e.delta # 0 /\ d > 0

CanSend_off_by_one(q) == Len(q) <= QueueCap

\* bounded(cap): send blocks while the channel holds cap messages
CanSend(q) == Len(q) < QueueCap

RecvIndex_newest(q) == Len(q)

\* rx.iter(): the next message is the oldest one in the channel
RecvIndex(q) == 1

----------------------------------------------------------------------------
(* midi.rs: main and the producer thread *)

MidiInit ==
    /\ m_pc = "setsf"
    /\ p_pc = "idle"
    /\ p_event = NoEvent
    /\ n_produced = 0
    /\ queue = << >>
    /\ cur = NoEvent
    /\ clock = 0
    /\ now = 0
    /\ time = 0
    /\ diff = 0
    /\ sent = << >>
    /\ taken = << >>
    /\ elapsed_read = 0
    /\ slept = FALSE

\* no pitch-wheel event is at the match
PwIdle ==
    /\ pw_event = NoEvent
    /\ pw_sent = << >>

M_SetSoundfonts_skipped ==
    /\ m_pc = "setsf"
    /\ m_pc' = "spawn"
    /\ UNCHANGED <<sf_vars, pw_vars, p_pc, p_event, n_produced, queue, cur, clock, now, time, diff,
                   sent, taken, elapsed_read, slept>>

\* sender.send_event(SynthEvent::AllChannels(ChannelEvent::SetSoundfonts(soundfonts)))
M_SetSoundfonts ==
    /\ m_pc = "setsf"
    /\ sent' = sent \o Logged(<< SetSoundfontsEvent >>, 0)
    /\ m_pc' = "spawn"
    /\ UNCHANGED <<sf_vars, pw_vars, p_pc, p_event, n_produced, queue, cur, clock, now, time, diff,
                   taken, elapsed_read, slept>>

\* let (tx, rx) = bounded(..); thread::spawn(move || { for e in merged { .. } })
M_Spawn ==
    /\ m_pc = "spawn"
    /\ p_pc' = "next"
    /\ m_pc' = "anchor"
    /\ UNCHANGED <<sf_vars, pw_vars, p_event, n_produced, queue, cur, clock, now, time, diff,
                   sent, taken, elapsed_read, slept>>

\* let now = Instant::now() - Duration::from_secs_f64(0.0); let mut time = 0.0;
M_Anchor ==
    /\ m_pc = "anchor"
    /\ now' = clock
    /\ time' = 0
    /\ m_pc' = "recv"
    /\ UNCHANGED <<sf_vars, pw_vars, p_pc, p_event, n_produced, queue, cur, clock, diff,
                   sent, taken, elapsed_read, slept>>

\* the producer's iterator yields its next event
P_Next(e) ==
    /\ p_pc = "next"
    /\ n_produced < MaxEvents
    /\ n_produced' = n_produced + 1
    /\ p_event' = Stamp(e, n_produced + 1)
    /\ p_pc' = "send"
    /\ UNCHANGED <<sf_vars, pw_vars, m_pc, queue, cur, clock, now, time, diff,
                   sent, taken, elapsed_read, slept>>

P_End_keeps_tx ==
    /\ p_pc = "next"
    /\ p_pc' = "parked"
    /\ UNCHANGED <<sf_vars, pw_vars, m_pc, p_event, n_produced, queue, cur, clock, now, time, diff,
                   sent, taken, elapsed_read, slept>>

\* the producer's iterator is exhausted: the closure returns and tx is dropped
P_End ==
    /\ p_pc = "next"
    /\ p_pc' = "done"
    /\ UNCHANGED <<sf_vars, pw_vars, m_pc, p_event, n_produced, queue, cur, clock, now, time, diff,
                   sent, taken, elapsed_read, slept>>

\* tx.send(e).unwrap(): blocks while the channel is full
P_Send ==
    /\ p_pc = "send"
    /\ CanSend(queue)
    /\ queue' = Append(queue, p_event)
    /\ p_event' = NoEvent
    /\ p_pc' = "next"
    /\ UNCHANGED <<sf_vars, pw_vars, m_pc, n_produced, cur, clock, now, time, diff,
                   sent, taken, elapsed_read, slept>>

\* for e in rx.iter(): blocks while the channel is empty and tx is alive
M_Recv ==
    /\ m_pc = "recv"
    /\ queue # << >>
    /\ cur' = queue[RecvIndex(queue)]
    /\ queue' = [ i \in 1..(Len(queue) - 1) |->
                    IF i < RecvIndex(queue) THEN queue[i] ELSE queue[i + 1] ]
    /\ taken' = Append(taken, queue[RecvIndex(queue)])
    /\ m_pc' = "pace"
    /\ UNCHANGED <<sf_vars, pw_vars, p_pc, p_event, n_produced, clock, now, time, diff,
                   sent, elapsed_read, slept>>

\* rx.iter() ends: the channel is empty and tx has been dropped
M_End ==
    /\ m_pc = "recv"
    /\ queue = << >>
    /\ p_pc = "done"
    /\ m_pc' = "done"
    /\ UNCHANGED <<sf_vars, pw_vars, p_pc, p_event, n_produced, queue, cur, clock, now, time, diff,
                   sent, taken, elapsed_read, slept>>

\* if e.delta() != 0.0 { time += e.delta(); let diff = ..; if diff > 0.0 { .. } }
M_Pace ==
    /\ m_pc = "pace"
    /\ time' = NextTime(time, cur)
    /\ elapsed_read' = Elapsed
    /\ diff' = Diff(NextTime(time, cur), Elapsed)
    /\ m_pc' = IF ShouldSleep(cur, Diff(NextTime(time, cur), Elapsed)) THEN "sleep" ELSE "dispatch"
    /\ UNCHANGED <<sf_vars, pw_vars, p_pc, p_event, n_produced, queue, cur, clock, now,
                   sent, taken, slept>>

\* spin_sleep::sleep(Duration::from_secs_f64(diff)): returns no earlier than asked
M_Sleep(over) ==
    /\ m_pc = "sleep"
    /\ clock' = clock + diff + over
    /\ slept' = TRUE
    /\ m_pc' = "dispatch"
    /\ UNCHANGED <<sf_vars, pw_vars, p_pc, p_event, n_produced, queue, cur, now, time, diff,
                   sent, taken, elapsed_read>>

\* match e { .. }: the send_event call, if any, for the event; the loop body
\* ends and its locals go out of scope
M_Dispatch ==
    /\ m_pc = "dispatch"
    /\ sent' = sent \o Logged(Forward(cur), cur.seq)
    /\ m_pc' = "recv"
    /\ cur' = NoEvent
    /\ diff' = 0
    /\ elapsed_read' = 0
    /\ slept' = FALSE
    /\ UNCHANGED <<sf_vars, pw_vars, p_pc, p_event, n_produced, queue, clock, now, time, taken>>

\* time passes while the threads run or wait
Tick ==
    /\ clock < MaxTime
    /\ clock' = clock + 1
    /\ UNCHANGED <<sf_vars, pw_vars, m_pc, p_pc, p_event, n_produced, queue, cur, now, time, diff,
                   sent, taken, elapsed_read, slept>>

MidiNext ==
    \/ M_SetSoundfonts
    \/ M_Spawn
    \/ M_Anchor
    \/ \E e \in MidiEvents : P_Next(e)
    \/ P_End
    \/ P_Send
    \/ M_Recv
    \/ M_End
    \/ M_Pace
    \/ \E over \in 0..MaxOversleep : M_Sleep(over)
    \/ M_Dispatch
    \/ Tick

\* the PitchWheelChange arm of the match alone, on one event
PW_Dispatch ==
    /\ pw_event # NoEvent
    /\ pw_sent = << >>
    /\ pw_sent' = Forward(pw_event)
    /\ UNCHANGED <<sf_vars, midi_vars, pw_event>>

PitchNext == PW_Dispatch

\* a pitch-wheel event with any raw pitch value is at the match
InitPitch ==
    /\ SfInit
    /\ MidiInit
    /\ pw_event \in { [ kind |-> "PitchWheelChange", delta |-> 0, channel |-> 0, pitch |-> p ] :
                         p \in PitchValues }
    /\ pw_sent = << >>

\* the streams the termination check runs on: the note-on events
FairEvents == { e \in MidiEvents : e.kind = "NoteOn" }

\* the steps of the producer thread
ProducerStep ==
    \/ \E e \in FairEvents : P_Next(e)
    \/ P_End
    \/ P_Send

\* the steps of the main thread
MainStep ==
    \/ M_SetSoundfonts
    \/ M_Spawn
    \/ M_Anchor
    \/ M_Recv
    \/ M_End
    \/ M_Pace
    \/ \E over \in 0..MaxOversleep : M_Sleep(over)
    \/ M_Dispatch

FairNext ==
    \/ ProducerStep
    \/ MainStep
    \/ Tick

----------------------------------------------------------------------------
(* Specifications *)

\* before SquareSoundfont::new is entered and before main sends anything
Init == SfInit /\ MidiInit /\ PwIdle

\* the soundfont: construction, then calls through the SoundfontBase trait
SpecSf == Init /\ [][SfNext]_vars

\* the example player: main and its producer thread
SpecMidi == Init /\ [][MidiNext]_vars

\* the pitch-wheel conversion over the whole range of raw values
SpecPitch == InitPitch /\ [][PitchNext]_vars

\* the example player on a finite stream, each thread scheduled fairly: a
\* thread that can take a step is not left waiting forever, and a sleep of
\* finite length returns
SpecMidiFair ==
    Init /\ [][FairNext]_vars /\ WF_vars(ProducerStep) /\ WF_vars(MainStep)

----------------------------------------------------------------------------
(* Claims about soundfont.rs, checked under SpecSf *)

AttackReturned == ret.op = "attack" /\ ~ret.panicked

\* C1: for a key outside 21..=108 the spawner built by SampledVoiceSpawner::new
\* borrows the nearest edge sample (the first table entry below 21, the last
\* above 108) and its base pitch factor is FREQS[key] / FREQS[edge key] times
\* the base rate ratio.
C1_EdgeKeyPitch ==
    (AttackReturned /\ (ret.key < 21 \/ ret.key > 108)) =>
        /\ Len(ret.spawners) = 1
        /\ ret.spawners[1].base_freq =
              RatMul(Rat(FREQS(ret.key), FREQS(IF ret.key < 21 THEN 21 ELSE 108)),
                     Rat(96000, stream_params.sample_rate))
        /\ ret.spawners[1].samples =
              (IF ret.key < 21 THEN samples[1] ELSE samples[Len(samples)])

\* a spawner was built for key 127, above the range, and its pitch is scaled
C1_Witness ==
    /\ AttackReturned
    /\ ret.key = 127
    /\ Len(ret.spawners) = 1
    /\ ret.spawners[1].base_freq # Rat(96000, stream_params.sample_rate)
    /\ ret.spawners[1].samples = Sample(108)

\* C2: for a key inside 21..=108 new succeeds, the spawner uses that key's own
\* sample, table entry key - 21, and its base pitch factor is the base rate
\* ratio alone.
C2_InRangeOwnSample ==
    (ret.op = "attack" /\ ret.key >= 21 /\ ret.key <= 108) =>
        /\ ~ret.panicked
        /\ Len(ret.spawners) = 1
        /\ ret.spawners[1].samples = samples[ret.key - 21 + 1]
        /\ ret.spawners[1].samples = Sample(ret.key)
        /\ ret.spawners[1].base_freq = Rat(96000, stream_params.sample_rate)

\* a spawner was built for key 60 at 44100 Hz
C2_Witness ==
    /\ AttackReturned
    /\ ret.key = 60
    /\ stream_params.sample_rate = 44100
    /\ Len(ret.spawners) = 1
    /\ ret.spawners[1].base_freq = <<320, 147>>

\* C8: when the load of one key's sample fails, new produces no soundfont and
\* its caller gets the failure as a typed failure (an error value).
C8_LoadFailureIsTypedError ==
    sf_pc = "failed" => (samples = << >> /\ ctor = "err")

\* C9: get_attack_voice_spawners_at completes for every key 0..=255 and every
\* velocity: no index is out of bounds and exactly one spawner is returned.
C9_AttackNeverFails ==
    ret.op = "attack" => (~ret.panicked /\ Len(ret.spawners) = 1)

\* C10: get_release_voice_spawners_at returns an empty list for every key and
\* every velocity.
C10_ReleaseEmpty ==
    ret.op = "release" => (~ret.panicked /\ ret.spawners = << >>)

\* a release call for key 60, for which an attack call builds a spawner
C10_Witness ==
    /\ ret.op = "release"
    /\ ret.key = 60
    /\ ret.vel = 127
    /\ Len(get_attack_voice_spawners_at(60, 127).spawners) = 1

\* C11: a constructed SquareSoundfont is never modified: no call of
\* stream_params, get_attack_voice_spawners_at, get_release_voice_spawners_at
\* or spawn_voice, in any order, changes its sample table, its envelope
\* parameters or its stream parameters, and spawn_voice leaves the fields of
\* the spawner it is called on unchanged.
C11_SoundfontReadOnly ==
    [][ /\ (sf_pc = "built" =>
              /\ sf_pc' = "built"
              /\ samples' = samples
              /\ volume_envelope_params' = volume_envelope_params
              /\ stream_params' = stream_params)
        /\ ((~voice.built /\ voice'.built) => ret' = ret) ]_vars

\* after new, an attack call and spawn_voice on the spawner it returned
C11_Witness ==
    /\ sf_pc = "built"
    /\ voice.built
    /\ ret.op = "attack"
    /\ ret.key = 60
    /\ Len(samples) = 88

\* C12: in whatever order the parallel loads complete, a slot of the collect
\* buffer only ever holds the sample of its own key, and the table new builds
\* has exactly 88 entries, entry i holding the sample loaded for key 21 + i.
C12_TableInKeyOrder ==
    /\ \A i \in DOMAIN slots : slots[i] # NoSample => slots[i] = Sample(21 + i)
    /\ sf_pc = "built" =>
          /\ Len(samples) = 88
          /\ \A i \in 0..87 : samples[i + 1] = Sample(21 + i)

\* the constructor has returned the table for keys 21 to 108
C12_Witness ==
    /\ sf_pc = "built"
    /\ ctor = "ok"
    /\ samples[1] = Sample(21)
    /\ samples[88] = Sample(108)

\* C16: a voice built by spawn_voice drives its left and right grabbers, on
\* the spawner's two sample channels, from one pitch factor that is base_freq
\* times the control data's voice_pitch_multiplier at every step, and its
\* output is envelope * (amplitude * stereo sampler).
C16_VoiceGraph ==
    voice.built =>
        LET sp == ret.spawners[1]
            out == voice.flattened
            sampler == out.b.b
        IN /\ voice.vel = sp.vel
           /\ out.node = "Mult"
           /\ out.a = [ node |-> "VoiceEnvelope", params |-> sp.volume_envelope_params ]
           /\ out.b.node = "Mult"
           /\ out.b.a = [ node |-> "Constant", value |-> sp.amp ]
           /\ sampler.node = "StereoVoiceSampler"
           /\ sampler.left = [ node |-> "NearestSampleGrabber", buffer |-> sp.samples[1] ]
           /\ sampler.right = [ node |-> "NearestSampleGrabber", buffer |-> sp.samples[2] ]
           /\ \A m \in PitchMultipliers :
                 EvalScalar(sampler.pitch_fac, [ voice_pitch_multiplier |-> m ])
                    = RatMul(sp.base_freq, m)

\* a voice spawned for key 20 at 44100 Hz, whose base_freq is not 1
C16_Witness ==
    /\ voice.built
    /\ ret.key = 20
    /\ stream_params.sample_rate = 44100
    /\ ret.spawners[1].base_freq # RatOne
    /\ EvalScalar(voice.flattened.b.b.pitch_fac, [ voice_pitch_multiplier |-> <<2, 1>> ])
          # ret.spawners[1].base_freq

\* C17: the base rate ratio of every attack spawner is 96000 / the soundfont's
\* output sample rate, for every key and velocity and whatever rate the sample
\* files were recorded at: an in-range key has pitch factor 1 at 96000 Hz
\* output and 2 at 48000 Hz.
C17_BaseRateRatio ==
    AttackReturned =>
        LET rate == new_args.sample_rate
            in_range == ret.key >= 21 /\ ret.key <= 108
            key_factor == IF ret.key < 21 THEN Rat(FREQS(ret.key), FREQS(21))
                          ELSE IF ret.key > 108 THEN Rat(FREQS(ret.key), FREQS(108))
                          ELSE <<1, 1>>
        IN /\ stream_params.sample_rate = rate
           /\ ret.spawners[1].base_freq = RatMul(key_factor, Rat(96000, rate))
           /\ (in_range /\ rate = 96000) => ret.spawners[1].base_freq = <<1, 1>>
           /\ (in_range /\ rate = 48000) => ret.spawners[1].base_freq = <<2, 1>>

\* files recorded at 44100 Hz, output at 96000 Hz: key 60 still has factor 1
C17_Witness ==
    /\ AttackReturned
    /\ wav_rate = 44100
    /\ stream_params.sample_rate = 96000
    /\ ret.key = 60
    /\ ret.spawners[1].base_freq = <<1, 1>>

----------------------------------------------------------------------------
(* Claims about midi.rs, checked under SpecMidi *)

RECURSIVE SumDeltas(_)
SumDeltas(events) ==
    IF events = << >> THEN 0
    ELSE SumDeltas(SubSeq(events, 1, Len(events) - 1)) + events[Len(events)].delta

NonNegativeDeltas(events) == \A i \in 1..Len(events) : events[i].delta >= 0

\* C3: the loop never sleeps for an event whose delta is zero or negative: it
\* goes from receiving such an event to its dispatch without calling sleep.
C3_NoSleepForNonPositiveDelta ==
    /\ (m_pc = "sleep" => cur.delta > 0)
    /\ ((m_pc = "dispatch" /\ cur.delta <= 0) => ~slept)

\* a negative-delta event, received after an event the schedule made wait,
\* is at its dispatch and the loop has not slept for it
C3_Witness ==
    /\ m_pc = "dispatch"
    /\ Len(taken) >= 2
    /\ taken[1].delta > 0
    /\ cur.delta < 0
    /\ ~slept

\* C4: with non-negative deltas and a sleep that lasts at least what was asked,
\* send_event is not called for an event before the time elapsed since the
\* anchor has reached the sum of the deltas up to and including that event.
C4_NotBeforeSchedule ==
    [][ (m_pc = "dispatch" /\ sent' # sent /\ NonNegativeDeltas(taken))
            => (clock - now >= SumDeltas(taken)) ]_vars

\* the second of two events scheduled at 1 and at 3 has been sent
C4_Witness ==
    /\ m_pc = "recv"
    /\ Len(taken) = 2
    /\ taken[1].delta = 1
    /\ taken[2].delta = 2
    /\ \E i \in 1..Len(sent) : sent[i].seq = 2
    /\ clock - now >= 3

\* C5: pacing does not drift: once the anchor is taken it never moves, the
\* accumulator an event is scheduled by is the sum of the deltas received so
\* far, whatever the earlier sleeps and delays were, and an event handled early
\* sleeps for exactly that sum minus the elapsed time read.
C5_NoDrift ==
    [][ /\ (m_pc \notin {"setsf", "spawn", "anchor"} => now' = now)
        /\ (m_pc' \in {"sleep", "dispatch"} => time' = SumDeltas(taken'))
        /\ (m_pc' = "sleep" => (diff' = SumDeltas(taken') - elapsed_read' /\ diff' > 0)) ]_vars

\* the first event, scheduled at 1, was handled late (2 has elapsed); the
\* second, delta 2, still targets 3 and sleeps 1
C5_Witness ==
    /\ m_pc = "sleep"
    /\ Len(taken) = 2
    /\ taken[1].delta = 1
    /\ cur.delta = 2
    /\ elapsed_read = 2
    /\ time = 3
    /\ diff = 1

\* C6: send_event is called for the events in the order the source produced
\* them, under every interleaving of the producer and the loop: the loop
\* receives the stream in order and without gaps, and the calls are in
\* stream order (so each channel's are too).
C6_DispatchInSourceOrder ==
    /\ \A i \in 1..Len(taken) : taken[i].seq = i
    /\ \A i, j \in 1..Len(sent) : i < j => sent[i].seq < sent[j].seq

\* three events were forwarded, two of them to the same channel, while the
\* channel had held two at once
C6_Witness ==
    /\ Len(sent) = 4
    /\ sent[2].call.channel = sent[4].call.channel
    /\ sent[2].seq = 1
    /\ sent[4].seq = 3

\* C7: the channel never holds more than its capacity; a producer that finds
\* it full cannot complete its send until the loop has received an event, and
\* every event yielded so far is in the channel, with the loop, or still held
\* by the blocked producer: none is dropped.
C7_BoundedQueueBackpressure ==
    LET held == IF p_pc = "send" THEN << p_event >> ELSE << >>
        all == taken \o queue \o held
    IN /\ Len(queue) <= QueueCap
       /\ ((p_pc = "send" /\ Len(queue) = QueueCap) => ~ENABLED P_Send)
       /\ Len(all) = n_produced
       /\ \A i \in 1..Len(all) : all[i].seq = i

\* the channel is full and the producer is blocked in send with the next event
C7_Witness ==
    /\ Len(queue) = QueueCap
    /\ p_pc = "send"
    /\ p_event.seq = QueueCap + 1

IsForwarded(e) == e.kind \in {"NoteOn", "NoteOff", "ControlChange", "PitchWheelChange"}

\* the loop has finished the body for the i-th event it received
Dispatched(i) == i < Len(taken) \/ (i = Len(taken) /\ cur = NoEvent)

CallsFor(i) == { j \in 1..Len(sent) : sent[j].seq = i }

SamePayload(e, ev) ==
    IF e.kind = "NoteOn" THEN ev = [ type |-> "NoteOn", key |-> e.key, vel |-> e.velocity ]
    ELSE IF e.kind = "NoteOff" THEN ev = [ type |-> "NoteOff", key |-> e.key ]
    ELSE IF e.kind = "ControlChange" THEN
        ev = [ type |-> "Control", control |-> "Raw",
               controller |-> e.controller, value |-> e.value ]
    ELSE ev.type = "Control" /\ ev.control = "PitchBendValue"

\* C13: every NoteOn, NoteOff, ControlChange and PitchWheelChange event the
\* loop has taken and finished with has caused exactly one send_event, to the
\* event's own channel (not a broadcast) and with the same key, velocity,
\* controller and value; an event still in the loop body has caused none yet.
C13_ExactlyOneSendToOwnChannel ==
    \A i \in 1..Len(taken) :
        IsForwarded(taken[i]) =>
            IF Dispatched(i)
            THEN /\ Cardinality(CallsFor(i)) = 1
                 /\ \A j \in CallsFor(i) :
                       /\ sent[j].call.scope = "Channel"
                       /\ sent[j].call.channel = taken[i].channel
                       /\ SamePayload(taken[i], sent[j].call.event)
            ELSE CallsFor(i) = {}

\* a note-on, a control change and a note-off on two channels were all sent
C13_Witness ==
    /\ m_pc = "recv"
    /\ Len(taken) = 3
    /\ taken[1].kind = "NoteOn" /\ taken[1].channel = 0
    /\ taken[2].kind = "ControlChange" /\ taken[2].channel = 1
    /\ taken[3].kind = "NoteOff"
    /\ cur = NoEvent
    /\ Len(sent) = 4

\* C14: an event of another kind causes no send_event, and its delta is added
\* to the accumulator all the same: outside the pacing step the accumulator is
\* the sum of the deltas of all events received, forwarded or not.
C14_OtherKindsSkippedButTimed ==
    /\ \A j \in 1..Len(sent) : sent[j].seq # 0 => IsForwarded(taken[sent[j].seq])
    /\ \A i \in 1..Len(taken) : ~IsForwarded(taken[i]) => CallsFor(i) = {}
    /\ m_pc # "pace" => time = SumDeltas(taken)

\* a program change with delta 1, then a note-on with delta 1: the note-on
\* was scheduled at 2 and is the only event sent
C14_Witness ==
    /\ m_pc = "recv"
    /\ Len(taken) = 2
    /\ taken[1].kind = "ProgramChange" /\ taken[1].delta = 1
    /\ taken[2].kind = "NoteOn" /\ taken[2].delta = 1
    /\ cur = NoEvent
    /\ time = 2
    /\ Len(sent) = 2
    /\ sent[2].seq = 2

\* C18: the SetSoundfonts broadcast is the first send_event of every
\* execution: every call addressed to a channel comes after it, and the
\* producer thread does not exist before it.
C18_SetSoundfontsFirst ==
    /\ m_pc # "setsf" => (sent # << >> /\ sent[1].call = SetSoundfontsEvent)
    /\ m_pc = "setsf" => (sent = << >> /\ p_pc = "idle")
    /\ \A j \in 1..Len(sent) :
          sent[j].call.scope = "Channel" => (j > 1 /\ sent[1].call = SetSoundfontsEvent)

\* a note-on was sent, after the broadcast
C18_Witness ==
    /\ Len(sent) >= 2
    /\ sent[1].call = SetSoundfontsEvent
    /\ sent[2].call.scope = "Channel"
    /\ sent[2].call.event.type = "NoteOn"

----------------------------------------------------------------------------
(* Claims about the pitch-wheel conversion, checked under SpecPitch *)

\* C15: for every raw pitch in -8192..=8191 the value forwarded as
\* PitchBendValue is exactly pitch / 8192, sent to the event's channel, and it
\* lies within [-1, 1].
C15_PitchBendNormalized ==
    pw_sent # << >> =>
        LET v == pw_sent[1].event.value
        IN /\ Len(pw_sent) = 1
           /\ pw_sent[1].scope = "Channel"
           /\ pw_sent[1].event.control = "PitchBendValue"
           /\ v[2] > 0
           /\ v[1] * 8192 = pw_event.pitch * v[2]
           /\ -v[2] <= v[1]
           /\ v[1] <= v[2]

\* the lowest raw value was forwarded as -1
C15_Witness ==
    /\ pw_event.kind = "PitchWheelChange"
    /\ pw_event.pitch = -8192
    /\ pw_sent # << >>
    /\ pw_sent[1].event.value = <<-1, 1>>

----------------------------------------------------------------------------
(* Claims about termination, checked under SpecMidiFair *)

\* C19: for a finite stream and fair scheduling of both threads, eventually
\* the producer has enqueued every event and dropped the sender, the loop has
\* taken every enqueued event and left, and the channel is empty.
C19_StreamDrained ==
    <>[](/\ p_pc = "done"
         /\ m_pc = "done"
         /\ queue = << >>
         /\ Len(taken) = n_produced
         /\ cur = NoEvent)

\* a stream of at least two events was produced and taken and both threads ended
C19_Witness ==
    /\ p_pc = "done"
    /\ m_pc = "done"
    /\ n_produced >= 2
    /\ Len(taken) = n_produced
    /\ queue = << >>

====
